---------------------------- MODULE Spec2Model ----------------------------
(***************************************************************************)
(* A model of godub: the immutable AudioSegment value (segment.go), the    *)
(* silence engine (silence.go) and its concurrent variant.                  *)
(*                                                                         *)
(* A PCM buffer is a sequence of bytes (0..255).  Times are milliseconds.   *)
(* The frame rates of the model are those for which frameRate/1000.0 is an  *)
(* exact binary fraction, so the float64 arithmetic of Duration and         *)
(* FrameCountIn is exactly the integer arithmetic written here.             *)
(* A Volume used as a threshold is represented by its linear ratio in       *)
(* 128ths (ToRatio(true) = k/128), a gain factor by a pair <<num, den>>.    *)
(***************************************************************************)
EXTENDS Integers, Sequences, FiniteSets, TLC

VARIABLES
    op,      \* the operation applied last ("" before any)
    seg,     \* the receiver segment
    other,   \* the argument segment (Append, Overlay)
    arg,     \* the scalar arguments of the operation
    ret,     \* what the operation returned
    \* DetectSilenceConcurrent in progress:
    pc,          \* where the calling goroutine is
    sliceStarts, \* the candidate window starts
    numWorkers,  \* min(runtime.NumCPU(), len(sliceStarts))
    spawned,     \* iterations of the work-distribution loop done
    workers,     \* worker goroutines: their chunk and how far they are
    wg,          \* the WaitGroup counter
    resultCh,    \* the reports buffered in the result channel
    chClosed,    \* whether resultCh is closed
    closer,      \* the goroutine that waits for wg and closes resultCh
    results,     \* the collector's results slice
    stores,      \* for each index, the workers whose report was stored there
    \* Overlay in progress:
    config,       \* the caller's OverlayConfig
    segment,      \* the receiver after sync
    rSegData,     \* the data right of config.Position
    otherSegData, \* the overlay's data, truncated on the last pass
    dest,         \* the bytes written to destBuf
    pos,          \* the offset in rSegData of the next pass
    loop,         \* the loop counter i
    opc,          \* where Overlay is: "idle", "loop" or "done"
    \* RMS() on the receiver:
    rmsCache,     \* the receiver's rms field: the cached value, if set
    callers,      \* the goroutines calling seg.RMS(): where each is
    rmsRuns,      \* how often audioop.RMS ran for the receiver
    rmsWrites,    \* how often the receiver's rms field was assigned
    rmsReturned   \* the values the calls returned

concVars == <<pc, sliceStarts, numWorkers, spawned, workers, wg, resultCh, chClosed,
              closer, results, stores>>

ovVars == <<config, segment, rSegData, otherSegData, dest, pos, loop, opc>>

rmsVars == <<rmsCache, callers, rmsRuns, rmsWrites, rmsReturned>>

vars == <<op, seg, other, arg, ret, concVars, ovVars, rmsVars>>

-----------------------------------------------------------------------------
(* Bounds of the model *)

MaxFrames == 3          \* frames in an input segment of the segment algebra
MaxMs == 3              \* largest millisecond argument
MaxCount == 2           \* largest Repeat count
MaxOtherFrames == 1     \* frames in the argument segment of Append
MaxSilenceFrames == 4   \* frames in an input segment of the silence engine
MaxMinSilence == 3      \* largest minSilenceLen
MaxSeekStep == 3        \* largest seekStep
MaxKeepSilence == 2     \* largest keepSilence
MaxConcFrames == 3      \* frames in an input segment of DetectSilenceConcurrent
MaxConcMinSilence == 2  \* largest minSilenceLen given to DetectSilenceConcurrent
MaxConcSeekStep == 2    \* largest seekStep given to DetectSilenceConcurrent
MaxCPU == 3             \* largest runtime.NumCPU()
MaxOverlayFrames == 3   \* frames in the base segment of Overlay
MaxLoopCount == 2       \* largest LoopCount
MaxCallers == 2         \* goroutines calling RMS() on one segment
MaxCalls == 2           \* calls of RMS() each of them makes
MaxSplitSeconds == 3    \* seconds in a recording given to SplitAudio
MaxRatecvFrames == 2    \* frames in a buffer given to Ratecv
\* the loop counter, decremented without end in the code, stops here
LoopFloor == 0 - (MaxLoopCount + 1)

-----------------------------------------------------------------------------
(* Sequences and arithmetic *)

Min(a, b) == IF a < b THEN a ELSE b

Max(a, b) == IF a > b THEN a ELSE b

SubSeqFrom(s, lo, hi) == [k \in 1..(hi - lo) |-> s[lo + k]]   \* Go's s[lo:hi]

RECURSIVE RepeatBytes(_, _)
RepeatBytes(s, n) == IF n <= 0 THEN <<>> ELSE s \o RepeatBytes(s, n - 1)

Zeros(n) == [k \in 1..n |-> 0]

RECURSIVE Pow(_, _)
Pow(b, e) == IF e = 0 THEN 1 ELSE b * Pow(b, e - 1)

\* the integer square root of n, by bisection on lo <= root < hi
RECURSIVE ISqrtBetween(_, _, _)
ISqrtBetween(n, lo, hi) ==
    IF hi - lo <= 1 THEN lo
    ELSE LET mid == (lo + hi) \div 2
         IN  IF mid * mid <= n THEN ISqrtBetween(n, mid, hi) ELSE ISqrtBetween(n, lo, mid)

ISqrt(n) == ISqrtBetween(n, 0, 46341)

RECURSIVE Gcd(_, _)
Gcd(a, b) == IF b = 0 THEN a ELSE Gcd(b, a % b)

-----------------------------------------------------------------------------
(* Package audioop: sample arithmetic over byte buffers (spec 4.1).         *)
(* Every operation returns [err, data]; err is TRUE for a width outside     *)
(* {1, 2, 4} or a buffer that is not a whole number of samples.             *)

ValidWidths == {1, 2, 4}

Malformed(buf, w) == w \notin ValidWidths \/ Len(buf) % w # 0

MaxVal(w) == IF w = 4 THEN 2147483647 ELSE Pow(256, w) \div 2 - 1

MinVal(w) == -MaxVal(w) - 1

Saturate(v, w) == IF v > MaxVal(w) THEN MaxVal(w) ELSE IF v < MinVal(w) THEN MinVal(w) ELSE v

SignedByte(b) == IF b > 127 THEN b - 256 ELSE b

RECURSIVE UnsignedLE(_)
UnsignedLE(bs) == IF bs = <<>> THEN 0 ELSE Head(bs) + 256 * UnsignedLE(Tail(bs))

\* the little-endian signed sample held by the w bytes bs
DecodeSample(bs) ==
    LET w == Len(bs)
    IN  UnsignedLE(SubSeq(bs, 1, w - 1)) + SignedByte(bs[w]) * Pow(256, w - 1)

\* the w bytes of the two's-complement sample v
EncodeSample(v, w) == [k \in 1..w |-> (v \div Pow(256, k - 1)) % 256]

SampleBytes(buf, i, w) == SubSeq(buf, (i - 1) * w + 1, i * w)

GetSample(buf, i, w) == DecodeSample(SampleBytes(buf, i, w))

NumSamples(buf, w) == Len(buf) \div w

RECURSIVE ConcatAll(_)
ConcatAll(ss) == IF ss = <<>> THEN <<>> ELSE Head(ss) \o ConcatAll(Tail(ss))

\* the buffer made of the samples f(1), ..., f(n), each w bytes wide
FromSamples(f, n, w) == ConcatAll([i \in 1..n |-> EncodeSample(f[i], w)])

AudioopErr == [err |-> TRUE, data |-> <<>>]

AudioopOk(d) == [err |-> FALSE, data |-> d]

\* v * num / den rounded to the nearest integer (halves upwards)
ScaleRound(v, f) == (2 * v * f[1] + f[2]) \div (2 * f[2])

Mul(buf, w, f) ==
    IF Malformed(buf, w) THEN AudioopErr
    ELSE AudioopOk(FromSamples(
            [i \in 1..NumSamples(buf, w) |-> Saturate(ScaleRound(GetSample(buf, i, w), f), w)],
            NumSamples(buf, w), w))

Add(a, b, w) ==
    IF Malformed(a, w) \/ Len(a) # Len(b) THEN AudioopErr
    ELSE AudioopOk(FromSamples(
            [i \in 1..NumSamples(a, w) |-> Saturate(GetSample(a, i, w) + GetSample(b, i, w), w)],
            NumSamples(a, w), w))

\* wraps modulo 2^(8w): EncodeSample keeps the low w bytes
Bias(buf, w, bias) ==
    IF Malformed(buf, w) THEN AudioopErr
    ELSE AudioopOk(FromSamples(
            [i \in 1..NumSamples(buf, w) |-> GetSample(buf, i, w) + bias],
            NumSamples(buf, w), w))

Reverse(buf, w) ==
    IF Malformed(buf, w) THEN AudioopErr
    ELSE LET n == NumSamples(buf, w)
         IN  AudioopOk(ConcatAll([i \in 1..n |-> SampleBytes(buf, n + 1 - i, w)]))

\* the sum over the first k samples of (sample^2 \div n) and of (sample^2 % n):
\* the sum of squares divided by n, kept within 32 bits
RECURSIVE SquareParts(_, _, _, _)
SquareParts(buf, w, n, k) ==
    IF k = 0 THEN <<0, 0>>
    ELSE LET sq == GetSample(buf, k, w) * GetSample(buf, k, w)
             r == SquareParts(buf, w, n, k - 1)
         IN  <<r[1] + (sq \div n), r[2] + (sq % n)>>

MeanSquare(buf, w) ==
    LET n == NumSamples(buf, w)
        parts == SquareParts(buf, w, n, n)
    IN  parts[1] + (parts[2] \div n)

\* sqrt(sum of squares / number of samples), as an integer; 0 on an empty buffer
AudioopRMS(buf, w) ==
    IF Malformed(buf, w) THEN [err |-> TRUE, val |-> 0]
    ELSE IF Len(buf) = 0 THEN [err |-> FALSE, val |-> 0]
    ELSE [err |-> FALSE, val |-> ISqrt(MeanSquare(buf, w))]

\* widening puts the sample in the high-order bytes, narrowing keeps them
Lin2Lin(buf, src, dst) ==
    IF Malformed(buf, src) \/ dst \notin ValidWidths THEN AudioopErr
    ELSE AudioopOk(ConcatAll([i \in 1..NumSamples(buf, src) |->
            IF dst >= src THEN Zeros(dst - src) \o SampleBytes(buf, i, src)
            ELSE SubSeq(SampleBytes(buf, i, src), src - dst + 1, src)]))

ToStereo(buf, w, fac1, fac2) ==
    IF Malformed(buf, w) THEN AudioopErr
    ELSE AudioopOk(ConcatAll([i \in 1..NumSamples(buf, w) |->
            EncodeSample(Saturate(ScaleRound(GetSample(buf, i, w), fac1), w), w)
            \o EncodeSample(Saturate(ScaleRound(GetSample(buf, i, w), fac2), w), w)]))

ToMono(buf, w, fac1, fac2) ==
    IF Malformed(buf, w) \/ Len(buf) % (2 * w) # 0 THEN AudioopErr
    ELSE AudioopOk(FromSamples(
            [i \in 1..(NumSamples(buf, w) \div 2) |->
                Saturate((GetSample(buf, 2 * i - 1, w) * fac1[1] * fac2[2]
                          + GetSample(buf, 2 * i, w) * fac2[1] * fac1[2])
                         \div (fac1[2] * fac2[2]), w)],
            NumSamples(buf, w) \div 2, w))

\* Linear-interpolation rate conversion, one call on a whole buffer: the rates
\* are reduced by their gcd, the step accumulator d starts at -outrate, an
\* input frame is read while d < 0 and an output frame written while d >= 0.
RECURSIVE RatecvLoop(_, _, _, _, _, _, _, _, _, _, _)
RatecvLoop(buf, w, nch, inr, outr, wA, wB, i, d, st, out) ==
    IF d < 0
    THEN IF i > Len(buf) \div (w * nch)
         THEN [err |-> FALSE, data |-> out, D |-> d]
         ELSE LET cur == [c \in 1..nch |->
                            (wA * GetSample(buf, (i - 1) * nch + c, w) + wB * st.cur[c])
                            \div (wA + wB)]
              IN  RatecvLoop(buf, w, nch, inr, outr, wA, wB, i + 1, d + outr,
                             [prev |-> st.cur, cur |-> cur], out)
    ELSE RatecvLoop(buf, w, nch, inr, outr, wA, wB, i, d - inr, st,
                    out \o FromSamples(
                        [c \in 1..nch |-> (st.prev[c] * d + st.cur[c] * (outr - d)) \div outr],
                        nch, w))

\* Ratecv driving the accumulator with the rates as given, not reduced
RatecvUnreduced(buf, w, nch, inrate, outrate, wA, wB) ==
    IF Malformed(buf, w) \/ nch < 1 \/ inrate <= 0 \/ outrate <= 0
       \/ Len(buf) % (w * nch) # 0
    THEN [err |-> TRUE, data |-> <<>>, D |-> 0]
    ELSE RatecvLoop(buf, w, nch, inrate, outrate, wA, wB, 1, -outrate,
                    [prev |-> [c \in 1..nch |-> 0], cur |-> [c \in 1..nch |-> 0]],
                    <<>>)

Ratecv(buf, w, nch, inrate, outrate, wA, wB) ==
    IF Malformed(buf, w) \/ nch < 1 \/ inrate <= 0 \/ outrate <= 0
       \/ Len(buf) % (w * nch) # 0
    THEN [err |-> TRUE, data |-> <<>>, D |-> 0]
    ELSE LET g == Gcd(inrate, outrate)
         IN  RatecvLoop(buf, w, nch, inrate \div g, outrate \div g, wA, wB, 1,
                        -(outrate \div g),
                        [prev |-> [c \in 1..nch |-> 0], cur |-> [c \in 1..nch |-> 0]],
                        <<>>)

-----------------------------------------------------------------------------
(* AudioSegment (segment.go).  An operation returns                         *)
(*   [status, seg, same]: status is "ok", "error" (a non-nil error and a    *)
(*   nil segment) or "panic" (a Go run-time panic); same is TRUE when the   *)
(*   returned pointer is the receiver itself.                               *)

NilSegment == [sampleWidth |-> 0, frameRate |-> 0, frameWidth |-> 0, channels |-> 0,
               data |-> <<>>]

Ok(s) == [status |-> "ok", seg |-> s, same |-> FALSE]

Self(s) == [status |-> "ok", seg |-> s, same |-> TRUE]

Error == [status |-> "error", seg |-> NilSegment, same |-> FALSE]

Panic == [status |-> "panic", seg |-> NilSegment, same |-> FALSE]

\* The 24-bit branch allocates buf of len(data)/3 + len(data) zero bytes and
\* writes each padded sample through bytes.NewBuffer(buf[offset:]).  That
\* buffer is already full (its length is its capacity), so Write appends in
\* a fresh allocation and buf itself keeps its zero bytes.
NewAudioSegment(data, sampleWidth, frameRate, frameWidth, channels) ==
    IF sampleWidth = 3
    THEN IF Len(data) % 3 # 0
         THEN Panic      \* data[i+2] is read past the end
         ELSE Ok([sampleWidth |-> 4, frameRate |-> frameRate, frameWidth |-> frameWidth,
                  channels |-> channels,
                  data |-> Zeros(Len(data) \div 3 + Len(data))])
    ELSE Ok([sampleWidth |-> sampleWidth, frameRate |-> frameRate,
             frameWidth |-> frameWidth, channels |-> channels, data |-> data])

\* wave: [BitsPerSample, SampleRate, Channels, RawData]
NewAudioSegmentFromWaveAudio(wave) ==
    LET sampleWidth == wave.BitsPerSample \div 8
    IN  NewAudioSegment(wave.RawData, sampleWidth, wave.SampleRate,
                        wave.Channels * sampleWidth, wave.Channels)

\* opts: the fields the options given to derive overwrite
derive(s, data, opts) ==
    LET r == NewAudioSegment(data, s.sampleWidth, s.frameRate, s.frameWidth, s.channels)
    IN  IF r.status # "ok" THEN r
        ELSE Ok([f \in DOMAIN r.seg |-> IF f \in DOMAIN opts THEN opts[f] ELSE r.seg[f]])

NoOpts == [x \in {} |-> 0]

FrameCount(s) == IF s.frameWidth > 0 THEN Len(s.data) \div s.frameWidth ELSE 0

\* round(1000 * frames / frameRate), halves away from zero
Duration(s) ==
    IF s.frameRate = 0 THEN 0
    ELSE (2000 * FrameCount(s) + s.frameRate) \div (2 * s.frameRate)

\* FrameCountIn(ms) in thousandths of a frame
FrameCountInMilli(s, ms) == Min(ms, Duration(s)) * s.frameRate

parsePosition(s, val) == FrameCountInMilli(s, val) \div 1000

MaxPossibleAmplitude(s) == Pow(2, s.sampleWidth * 8 - 1)

SliceData(s, start, end) ==
    LET audioLength == Duration(s)
        st == Min(start, audioLength)
        en == Min(end, audioLength)
        startIndex == parsePosition(s, st) * s.frameWidth
        endIndex0 == parsePosition(s, en) * s.frameWidth
        expectedLength == endIndex0 - startIndex
        endIndex == Min(endIndex0, Len(s.data))
    IN  [startIndex |-> startIndex, endIndex |-> endIndex,
         expectedLength |-> expectedLength]

Slice(s, start, end) ==
    IF start > end THEN Error
    ELSE IF start < 0 \/ end < 0 THEN Error
    ELSE LET ix == SliceData(s, start, end)
         IN  IF ix.startIndex > ix.endIndex THEN Panic   \* slice bounds out of range
             ELSE LET data == SubSeqFrom(s.data, ix.startIndex, ix.endIndex)
                      missingFrames == (ix.expectedLength - Len(data)) \div s.frameWidth
                  IN  IF missingFrames > 0
                      THEN IF missingFrames * 1000 > FrameCountInMilli(s, 2) THEN Error
                           ELSE IF s.frameWidth > Len(data) THEN Panic   \* data[:frameWidth] past the buffer
                           ELSE LET silence == Mul(SubSeq(data, 1, s.frameWidth),
                                                   s.sampleWidth, <<0, 1>>)
                                IN  IF silence.err     \* the code tests err != nil
                                    THEN derive(s, data \o RepeatBytes(silence.data, missingFrames),
                                                NoOpts)
                                    ELSE derive(s, data, NoOpts)
                      ELSE derive(s, data, NoOpts)

ForkWithSampleWidth(s, sampleWidth) ==
    IF sampleWidth = s.sampleWidth THEN Self(s)
    ELSE LET b1 == IF s.sampleWidth = 1 THEN Bias(s.data, 1, -128) ELSE AudioopOk(s.data)
             b2 == IF b1.err THEN b1
                   ELSE IF Len(b1.data) > 0 THEN Lin2Lin(b1.data, s.sampleWidth, sampleWidth)
                   ELSE b1
             b3 == IF b2.err THEN b2
                   ELSE IF sampleWidth = 1 THEN Bias(b2.data, 1, 128)
                   ELSE b2
         IN  IF b3.err THEN Error
             ELSE derive(s, b3.data, [sampleWidth |-> sampleWidth,
                                      frameWidth |-> s.channels * sampleWidth])

ForkWithFrameRate(s, frameRate) ==
    IF frameRate = s.frameRate THEN Self(s)
    ELSE LET r == IF Len(s.data) > 0
                  THEN Ratecv(s.data, s.sampleWidth, s.channels, s.frameRate, frameRate, 1, 0)
                  ELSE [err |-> FALSE, data |-> s.data, D |-> 0]
         IN  IF r.err THEN Error
             ELSE derive(s, r.data, [frameRate |-> frameRate])

ValidChannels == {1, 2}

ForkWithChannels(s, channels) ==
    IF channels \notin ValidChannels THEN Error
    ELSE IF channels = s.channels THEN Self(s)
    ELSE IF channels = 2 /\ s.channels = 1
    THEN LET r == ToStereo(s.data, s.sampleWidth, <<1, 1>>, <<1, 1>>)
         IN  IF r.err THEN Error
             ELSE derive(s, r.data, [channels |-> channels, frameWidth |-> s.frameWidth * 2])
    ELSE IF channels = 1 /\ s.channels = 2
    THEN LET r == ToMono(s.data, s.sampleWidth, <<1, 2>>, <<1, 2>>)
         IN  IF r.err THEN Error
             ELSE derive(s, r.data, [channels |-> channels, frameWidth |-> s.frameWidth \div 2])
    ELSE Panic     \* convertFunc is nil

SetMax(S) == CHOOSE m \in S : \A x \in S : x <= m

\* one segment brought to the common format, in the order sync applies the forks
thenFrameRate(r, maxFrameRate) ==
    IF r.status # "ok" THEN r ELSE ForkWithFrameRate(r.seg, maxFrameRate)

thenSampleWidth(r, maxSampleWidth) ==
    IF r.status # "ok" THEN r ELSE ForkWithSampleWidth(r.seg, maxSampleWidth)

syncOne(s, maxChannels, maxFrameRate, maxSampleWidth) ==
    thenSampleWidth(thenFrameRate(ForkWithChannels(s, maxChannels), maxFrameRate),
                    maxSampleWidth)

\* the outcome of sync once every segment has gone through its forks
syncOutcome(rs) ==
    IF \E i \in 1..Len(rs) : rs[i].status = "panic" THEN [status |-> "panic", segs |-> <<>>]
    ELSE IF \E i \in 1..Len(rs) : rs[i].status = "error" THEN [status |-> "error", segs |-> <<>>]
    ELSE [status |-> "ok", segs |-> [i \in 1..Len(rs) |-> rs[i].seg]]

\* returns [status, segs]
sync(segments) ==
    LET n == Len(segments)
        maxChannels == SetMax({segments[i].channels : i \in 1..n})
        maxFrameRate == SetMax({segments[i].frameRate : i \in 1..n})
        maxSampleWidth == SetMax({segments[i].sampleWidth : i \in 1..n})
    IN  syncOutcome([i \in 1..n |->
                    syncOne(segments[i], maxChannels, maxFrameRate, maxSampleWidth)])

SegAppend(s, segments) ==
    LET r == sync(<<s>> \o segments)
    IN  IF r.status = "panic" THEN Panic
        ELSE IF r.status = "error" THEN Error
        ELSE derive(s, ConcatAll([i \in 1..Len(r.segs) |-> r.segs[i].data]), NoOpts)

ApplyGain(s, ratio) ==
    LET r == Mul(s.data, s.sampleWidth, ratio)
    IN  IF r.err THEN Error ELSE derive(s, r.data, NoOpts)

Repeat(s, count) ==
    IF count < 0 THEN Panic      \* bytes.Repeat: negative Repeat count
    ELSE derive(s, RepeatBytes(s.data, count), NoOpts)

SegReverse(s) ==
    LET r == Reverse(s.data, s.sampleWidth)
    IN  IF r.err THEN Error ELSE derive(s, r.data, NoOpts)

\* the value RMS() returns; 1-byte segments are measured on their 2-byte fork
RMS(s) ==
    IF s.sampleWidth = 1
    THEN LET r == ForkWithSampleWidth(s, 2)
         IN  IF r.status # "ok" THEN 0
             ELSE LET v == AudioopRMS(r.seg.data, r.seg.sampleWidth)
                  IN  IF v.err THEN 0 ELSE v.val
    ELSE LET v == AudioopRMS(s.data, s.sampleWidth)
         IN  IF v.err THEN 0 ELSE v.val

-----------------------------------------------------------------------------
(* The silence engine (silence.go).  A range is a pair <<start, end>> of     *)
(* milliseconds.  A detection returns [status, ranges]; status is "panic"   *)
(* when the code dereferences a nil segment or indexes out of range.        *)

\* the starts 0, seekStep, 2*seekStep, ... < lastSliceStart + 1
SteppedStarts(lastSliceStart, seekStep) ==
    [k \in 1..(lastSliceStart \div seekStep + 1) |-> (k - 1) * seekStep]

sliceStartsOf(segLen, minSilenceLen, seekStep) ==
    LET lastSliceStart == segLen - minSilenceLen
    IN  IF lastSliceStart % seekStep # 0
        THEN SteppedStarts(lastSliceStart, seekStep) \o <<lastSliceStart>>
        ELSE SteppedStarts(lastSliceStart, seekStep)

\* rms <= silenceThresh.ToRatio(true) * seg.MaxPossibleAmplitude(), the
\* threshold ratio being thresh/128
BelowThreshold(rms, thresh, s) == rms * 128 <= thresh * MaxPossibleAmplitude(s)

\* the verdict of DetectSilence on the window starting at i:
\* "silent", "loud", or "panic"
verdictOf(audioSlice, thresh, s) ==
    IF audioSlice.status # "ok" THEN "panic"     \* Slice panicked, or nil.RMS()
    ELSE IF BelowThreshold(RMS(audioSlice.seg), thresh, s) THEN "silent"
    ELSE "loud"

windowVerdict(s, i, minSilenceLen, thresh) ==
    verdictOf(Slice(s, i, i + minSilenceLen), thresh, s)

\* the loop that combines the silent starts into ranges: the start at index
\* k > 1 opens a new range (and closes the current one at the start before it)
\* when it is neither seekStep after the previous start nor within
\* minSilenceLen of it
rangeOpensAt(silenceStarts, k, minSilenceLen, seekStep) ==
    \/ k = 1
    \/ LET silenceStartI == silenceStarts[k]
           prevI == silenceStarts[k - 1]
           continuous == (silenceStartI = prevI + seekStep)
           silenceHasGap == (silenceStartI > prevI + minSilenceLen)
       IN  ~continuous /\ silenceHasGap

\* one range per opening start, closed at the last start before the next
\* opening one, or at the last start of all
mergeSilence(silenceStarts, minSilenceLen, seekStep) ==
    LET n == Len(silenceStarts)
        opens == SelectSeq([k \in 1..n |-> k],
                           LAMBDA k : rangeOpensAt(silenceStarts, k, minSilenceLen, seekStep))
    IN  [j \in 1..Len(opens) |->
            <<silenceStarts[opens[j]],
              silenceStarts[IF j < Len(opens) THEN opens[j + 1] - 1 ELSE n]
                + minSilenceLen>>]

\* the silent starts among starts, given the verdict of every window, merged
silentRangesOf(starts, verdicts, minSilenceLen, seekStep) ==
    IF \E k \in 1..Len(starts) : verdicts[k] = "panic"
    THEN [status |-> "panic", ranges |-> <<>>]
    ELSE LET silent == SelectSeq([k \in 1..Len(starts) |-> k],
                                 LAMBDA k : verdicts[k] = "silent")
             silenceStarts == [r \in 1..Len(silent) |-> starts[silent[r]]]
         IN  [status |-> "ok",
              ranges |-> mergeSilence(silenceStarts, minSilenceLen, seekStep)]

\* the verdict of every window of starts
verdictsOf(s, starts, minSilenceLen, thresh) ==
    [k \in 1..Len(starts) |-> windowVerdict(s, starts[k], minSilenceLen, thresh)]

DetectSilence(s, minSilenceLen, thresh, seekStep) ==
    IF Duration(s) < minSilenceLen THEN [status |-> "ok", ranges |-> <<>>]
    ELSE silentRangesOf(sliceStartsOf(Duration(s), minSilenceLen, seekStep),
                        verdictsOf(s, sliceStartsOf(Duration(s), minSilenceLen, seekStep),
                                   minSilenceLen, thresh),
                        minSilenceLen, seekStep)

\* cmp.Equal(nonsilentRanges[0], []time.Duration{0, 0}): the operands are a
\* []int64 and a []time.Duration; cmp.Equal reports values of different
\* types as unequal.
cmpEqualZeroRange(r) == FALSE

\* nonsilentOf without the trailing remainder after the last silent range
nonsilentOfWithoutTail(silentRanges, lenSeg, dropLeading) ==
    IF Len(silentRanges) = 0 THEN <<<<0, lenSeg>>>>
    ELSE IF silentRanges[1][1] = 0 /\ silentRanges[1][2] = lenSeg THEN <<>>
    ELSE [i \in 1..Len(silentRanges) |->
            <<IF i = 1 THEN 0 ELSE silentRanges[i - 1][2], silentRanges[i][1]>>]

\* the complement built from the silent ranges of a segment lenSeg long
nonsilentOf(silentRanges, lenSeg, dropLeading) ==
    IF Len(silentRanges) = 0 THEN <<<<0, lenSeg>>>>
    ELSE IF silentRanges[1][1] = 0 /\ silentRanges[1][2] = lenSeg THEN <<>>
    ELSE LET n == Len(silentRanges)
             gaps == [i \in 1..n |->
                        <<IF i = 1 THEN 0 ELSE silentRanges[i - 1][2], silentRanges[i][1]>>]
             endI == silentRanges[n][2]
             all == IF endI # lenSeg THEN Append(gaps, <<endI, lenSeg>>) ELSE gaps
         IN  IF dropLeading /\ cmpEqualZeroRange(all[1]) THEN Tail(all) ELSE all

\* DetectNonsilent once DetectSilence returned r
nonsilentAfter(r, lenSeg, dropLeading) ==
    IF r.status # "ok" THEN r
    ELSE [status |-> "ok", ranges |-> nonsilentOf(r.ranges, lenSeg, dropLeading)]

DetectNonsilent(s, minSilenceLen, thresh, seekStep) ==
    nonsilentAfter(DetectSilence(s, minSilenceLen, thresh, seekStep), Duration(s), TRUE)

-----------------------------------------------------------------------------
(* The concurrent silence engine: the parts that are functions of the       *)
(* inputs.  The workers, the result channel and the collector are the       *)
(* actions of SpecConcurrent below.                                         *)

calculateRMSForSegmentOptimized(s, start, end) ==
    LET startIndex == parsePosition(s, start) * s.frameWidth
        endIndex == Min(parsePosition(s, end) * s.frameWidth, Len(s.data))
    IN  IF startIndex >= endIndex THEN 0
        ELSE LET v == AudioopRMS(SubSeqFrom(s.data, startIndex, endIndex), s.sampleWidth)
             IN  IF v.err THEN 0 ELSE v.val

\* silenceResult with the index within the chunk instead of the original index
silenceResultChunkIndex(s, startIdx, i, p, minSilenceLen, thresh) ==
    [index |-> i,
     position |-> p,
     isSilent |-> BelowThreshold(
                    calculateRMSForSegmentOptimized(s, p, p + minSilenceLen), thresh, s)]

\* the report a worker sends for the window at positions[i] of its chunk
silenceResult(s, startIdx, i, p, minSilenceLen, thresh) ==
    [index |-> startIdx + i,
     position |-> p,
     isSilent |-> BelowThreshold(
                    calculateRMSForSegmentOptimized(s, p, p + minSilenceLen), thresh, s)]

\* the positions, in index order, of the results that are silent
silentPositions(rs) ==
    LET silent == SelectSeq(rs, LAMBDA r : r.isSilent)
    IN  [k \in 1..Len(silent) |-> silent[k].position]

\* the results slice once every window's report is stored (indices from 0)
collectedResults(s, minSilenceLen, thresh, seekStep) ==
    LET starts == sliceStartsOf(Duration(s), minSilenceLen, seekStep)
    IN  [k \in 1..Len(starts) |->
            silenceResult(s, 0, k - 1, starts[k], minSilenceLen, thresh)]

DetectSilenceConcurrent(s, minSilenceLen, thresh, seekStep) ==
    IF Duration(s) < minSilenceLen THEN [status |-> "ok", ranges |-> <<>>]
    ELSE [status |-> "ok",
          ranges |-> mergeSilence(
                        silentPositions(collectedResults(s, minSilenceLen, thresh, seekStep)),
                        minSilenceLen, seekStep)]

DetectNonsilentConcurrent(s, minSilenceLen, thresh, seekStep) ==
    nonsilentAfter(DetectSilenceConcurrent(s, minSilenceLen, thresh, seekStep),
                   Duration(s), FALSE)

-----------------------------------------------------------------------------
(* SplitOnSilence and SplitOnSilenceConcurrent *)

checkEmptyAudio(s) == RMS(s) = 0      \* TRUE: the InvalidFile error

\* targetDBFS - sound.DBFS() as a linear ratio: for targetDBFS = -20 the gain
\* is 0.1 * MaxPossibleAmplitude / RMS
matchTargetAmp(sound) ==
    ApplyGain(sound, <<MaxPossibleAmplitude(sound), 10 * RMS(sound)>>)

\* the chunk <<startI, endI>> cut for nonsilent range i, and whether Slice
\* returned a segment for it
cutAt(s, startI, endI) == [startI |-> startI, endI |-> endI, slice |-> Slice(s, startI, endI)]

chunkOf(s, ranges, i, keepSilence) ==
    LET n == Len(ranges)
        startMin == IF i = 1 THEN 0 ELSE ranges[i - 1][2]
        endMax == IF i < n
                  THEN ranges[i][2] + (ranges[i + 1][1] - ranges[i][2] + 1) \div 2
                  ELSE Duration(s)
    IN  cutAt(s, Max(startMin, ranges[i][1] - keepSilence),
              Min(endMax, ranges[i][2] + keepSilence))

\* returns [status, chunks]: status "ok", "error" (InvalidFile) or "panic";
\* chunks are the <<startI, endI>> of the segments returned
\* the chunks kept of cuts, the chunk cut for every nonsilent range
keptChunks(cuts) ==
    IF \E i \in 1..Len(cuts) : cuts[i].slice.status = "panic"
    THEN [status |-> "panic", chunks |-> <<>>]
    ELSE LET kept == SelectSeq(cuts, LAMBDA c : c.slice.status = "ok")
         IN  [status |-> "ok",
              chunks |-> [k \in 1..Len(kept) |-> <<kept[k].startI, kept[k].endI>>]]

\* SplitOnSilence once the nonsilent ranges of the normalized copy are known
splitAt(s, det, keepSilence) ==
    IF det.status # "ok" THEN [status |-> "panic", chunks |-> <<>>]
    ELSE IF Len(det.ranges) = 1
    THEN [status |-> "ok", chunks |-> <<<<0, Duration(s)>>>>]
    ELSE IF Len(det.ranges) = 0
    THEN [status |-> "panic", chunks |-> <<>>]  \* notSilenceRanges[-1]
    ELSE keptChunks([i \in 1..Len(det.ranges) |-> chunkOf(s, det.ranges, i, keepSilence)])

\* SplitOnSilence once matchTargetAmp returned normAudio
splitNormalized(s, normAudio, minSilenceLen, thresh, keepSilence, seekStep, concurrent) ==
    IF normAudio.status # "ok"
    THEN [status |-> "panic", chunks |-> <<>>]    \* normAudio is nil
    ELSE splitAt(s,
                 IF concurrent
                 THEN DetectNonsilentConcurrent(normAudio.seg, minSilenceLen, thresh, seekStep)
                 ELSE DetectNonsilent(normAudio.seg, minSilenceLen, thresh, seekStep),
                 keepSilence)

splitOnSilence(s, minSilenceLen, thresh, keepSilence, seekStep, concurrent) ==
    IF checkEmptyAudio(s) THEN [status |-> "error", chunks |-> <<>>]
    ELSE splitNormalized(s, matchTargetAmp(s), minSilenceLen, thresh, keepSilence,
                         seekStep, concurrent)

SplitOnSilence(s, minSilenceLen, thresh, keepSilence, seekStep) ==
    splitOnSilence(s, minSilenceLen, thresh, keepSilence, seekStep, FALSE)

SplitOnSilenceConcurrent(s, minSilenceLen, thresh, keepSilence, seekStep) ==
    splitOnSilence(s, minSilenceLen, thresh, keepSilence, seekStep, TRUE)

-----------------------------------------------------------------------------
(* Input segments: whole frames of their declared format *)

FrameRates == {1000, 1500, 2000}

ChannelCounts == {1, 2, 3}

SampleWidths == {1, 2}

\* the sample values of the inputs: silence and a loud sample, per width
\* (8-bit PCM is unsigned: 128 is silence)
Quiet(w) == IF w = 1 THEN <<128>> ELSE EncodeSample(0, w)

Loud(w) == IF w = 1 THEN <<131>> ELSE EncodeSample(300, w)

\* the buffer of the frames pattern[1..n]: TRUE is a loud frame
FramesOf(pattern, w, ch) ==
    ConcatAll([i \in 1..Len(pattern) |->
                RepeatBytes(IF pattern[i] THEN Loud(w) ELSE Quiet(w), ch)])

MakeSegment(pattern, w, fr, ch) ==
    [sampleWidth |-> w, frameRate |-> fr, frameWidth |-> ch * w, channels |-> ch,
     data |-> FramesOf(pattern, w, ch)]

Patterns(n) == UNION {[1..k -> BOOLEAN] : k \in 0..n}

Segments(n) ==
    {MakeSegment(p, w, fr, ch) :
        p \in Patterns(n), w \in SampleWidths, fr \in FrameRates, ch \in ChannelCounts}

WholeFrames(s) ==
    /\ s.frameWidth = s.channels * s.sampleWidth
    /\ s.frameWidth > 0
    /\ Len(s.data) % s.frameWidth = 0

-----------------------------------------------------------------------------
(* The segment algebra: each action applies one operation to the inputs *)

NoRet == [status |-> "none", seg |-> NilSegment, same |-> FALSE]

NoWorker == [state |-> "none", positions |-> <<>>, startIdx |-> 0, i |-> 0]

\* no call of DetectSilenceConcurrent in progress
ConcIdle ==
    /\ pc = "idle"
    /\ sliceStarts = <<>>
    /\ numWorkers = 0
    /\ spawned = 0
    /\ workers = [w \in 0..(MaxCPU - 1) |-> NoWorker]
    /\ wg = 0
    /\ resultCh = <<>>
    /\ chClosed = FALSE
    /\ closer = "none"
    /\ results = <<>>
    /\ stores = <<>>

NoConfig == [Position |-> 0, LoopToEnd |-> FALSE, LoopCount |-> 0, GainDuringOverlay |-> <<1, 1>>]

\* the rms field of a segment: nil, or a pointer to the cached value
NoCache == [set |-> FALSE, val |-> 0]

NoCaller == [state |-> "idle", rms |-> 0, calls |-> 0]

\* no call of RMS() on the receiver so far
RmsIdle ==
    /\ rmsCache = NoCache
    /\ callers = [c \in 1..MaxCallers |-> NoCaller]
    /\ rmsRuns = 0
    /\ rmsWrites = 0
    /\ rmsReturned = {}

\* no call of Overlay in progress
OverlayIdle ==
    /\ config = NoConfig
    /\ segment = NilSegment
    /\ rSegData = <<>>
    /\ otherSegData = <<>>
    /\ dest = <<>>
    /\ pos = 0
    /\ loop = 0
    /\ opc = "idle"

NoArg == [x \in {} |-> 0]

Init ==
    /\ op = ""
    /\ seg \in Segments(MaxFrames)
    /\ other = NilSegment
    /\ arg = NoArg
    /\ ret = NoRet
    /\ ConcIdle
    /\ OverlayIdle
    /\ RmsIdle

DoSlice ==
    \E start \in -1..(MaxMs + 1), end \in -1..(MaxMs + 1) :
        /\ op = ""
        /\ op' = "Slice"
        /\ arg' = [start |-> start, end |-> end]
        /\ ret' = Slice(seg, start, end)
        /\ UNCHANGED <<seg, other, concVars, ovVars, rmsVars>>

DoAppend ==
    \E o \in Segments(MaxOtherFrames) :
        \E segments \in {<<>>, <<o>>, <<o, seg>>} :
            /\ op = ""
            /\ op' = "Append"
            /\ other' = o
            /\ arg' = [segments |-> segments]
            /\ ret' = SegAppend(seg, segments)
            /\ UNCHANGED <<seg, concVars, ovVars, rmsVars>>

DoRepeat ==
    \E count \in 0..MaxCount :
        /\ op = ""
        /\ op' = "Repeat"
        /\ arg' = [count |-> count]
        /\ ret' = Repeat(seg, count)
        /\ UNCHANGED <<seg, other, concVars, ovVars, rmsVars>>

DoReverse ==
    /\ op = ""
    /\ op' = "Reverse"
    /\ arg' = NoArg
    /\ ret' = SegReverse(seg)
    /\ UNCHANGED <<seg, other, concVars, ovVars, rmsVars>>

DoForkWithSampleWidth ==
    \E sampleWidth \in ValidWidths :
        /\ op = ""
        /\ op' = "ForkWithSampleWidth"
        /\ arg' = [target |-> sampleWidth]
        /\ ret' = ForkWithSampleWidth(seg, sampleWidth)
        /\ UNCHANGED <<seg, other, concVars, ovVars, rmsVars>>

DoForkWithFrameRate ==
    \E frameRate \in FrameRates :
        /\ op = ""
        /\ op' = "ForkWithFrameRate"
        /\ arg' = [target |-> frameRate]
        /\ ret' = ForkWithFrameRate(seg, frameRate)
        /\ UNCHANGED <<seg, other, concVars, ovVars, rmsVars>>

DoForkWithChannels ==
    \E channels \in ChannelCounts :
        /\ op = ""
        /\ op' = "ForkWithChannels"
        /\ arg' = [target |-> channels]
        /\ ret' = ForkWithChannels(seg, channels)
        /\ UNCHANGED <<seg, other, concVars, ovVars, rmsVars>>

\* Slice(0, a) and Slice(a, b) joined again by Append
SliceAppend(s, a, b) ==
    LET left == Slice(s, 0, a)
        mid == Slice(s, a, b)
    IN  IF left.status # "ok" THEN left
        ELSE IF mid.status # "ok" THEN mid
        ELSE SegAppend(left.seg, <<mid.seg>>)

DoSliceAppend ==
    \E a \in 0..(MaxMs + 1), b \in 0..(MaxMs + 1) :
        /\ op = ""
        /\ a <= b
        /\ b <= Duration(seg)
        /\ op' = "SliceAppend"
        /\ arg' = [a |-> a, b |-> b]
        /\ ret' = SliceAppend(seg, a, b)
        /\ UNCHANGED <<seg, other, concVars, ovVars, rmsVars>>

\* a decoded wave file of as many whole frames as seg holds, in the channels
\* and rate of seg, 8, 16 or 24 bits per sample
WaveOf(s, bits) ==
    [BitsPerSample |-> bits, SampleRate |-> s.frameRate, Channels |-> s.channels,
     RawData |-> RepeatBytes(<<200>>, FrameCount(s) * s.channels * (bits \div 8))]

DoNewAudioSegmentFromWaveAudio ==
    \E bits \in {8, 16, 24} :
        /\ op = ""
        /\ op' = "NewAudioSegmentFromWaveAudio"
        /\ arg' = [wave |-> WaveOf(seg, bits)]
        /\ ret' = NewAudioSegmentFromWaveAudio(WaveOf(seg, bits))
        /\ UNCHANGED <<seg, other, concVars, ovVars, rmsVars>>

Next ==
    \/ DoSlice
    \/ DoAppend
    \/ DoRepeat
    \/ DoReverse
    \/ DoForkWithSampleWidth
    \/ DoForkWithFrameRate
    \/ DoForkWithChannels
    \/ DoNewAudioSegmentFromWaveAudio
    \/ DoSliceAppend

Spec == Init /\ [][Next]_vars

-----------------------------------------------------------------------------
(* The silence engine: each action applies one function to the segment *)

\* threshold ratios in 128ths: about -42 dBFS and -20 dBFS
ThresholdRatios == {1, 13}

SilenceSegments ==
    {MakeSegment(p, w, fr, ch) :
        p \in Patterns(MaxSilenceFrames), w \in SampleWidths, fr \in FrameRates,
        ch \in ValidChannels}

NoRanges == [status |-> "none", ranges |-> <<>>]

InitSilence ==
    /\ op = ""
    /\ seg \in SilenceSegments
    /\ other = NilSegment
    /\ arg = NoArg
    /\ ret = NoRanges
    /\ ConcIdle
    /\ OverlayIdle
    /\ RmsIdle

DetectArgs ==
    [minSilenceLen : 0..MaxMinSilence, thresh : ThresholdRatios, seekStep : 1..MaxSeekStep]

DoDetectSilence ==
    \E a \in DetectArgs :
        /\ op = ""
        /\ op' = "DetectSilence"
        /\ arg' = a
        /\ ret' = DetectSilence(seg, a.minSilenceLen, a.thresh, a.seekStep)
        /\ UNCHANGED <<seg, other, concVars, ovVars, rmsVars>>

DoDetectNonsilent ==
    \E a \in DetectArgs :
        /\ op = ""
        /\ op' = "DetectNonsilent"
        /\ arg' = a
        /\ ret' = DetectNonsilent(seg, a.minSilenceLen, a.thresh, a.seekStep)
        /\ UNCHANGED <<seg, other, concVars, ovVars, rmsVars>>

DoDetectNonsilentConcurrent ==
    \E a \in DetectArgs :
        /\ op = ""
        /\ op' = "DetectNonsilentConcurrent"
        /\ arg' = a
        /\ ret' = DetectNonsilentConcurrent(seg, a.minSilenceLen, a.thresh, a.seekStep)
        /\ UNCHANGED <<seg, other, concVars, ovVars, rmsVars>>

\* seg.RMS() as SplitOnSilence calls it, alone: once in checkEmptyAudio and,
\* when that passes, once more in DBFS().  A 1-byte segment is measured on a
\* fork each time and its own rms field stays nil.
splitCallsRMS ==
    LET n == IF checkEmptyAudio(seg) THEN 1 ELSE 2
    IN  IF seg.sampleWidth = 1
        THEN /\ rmsRuns' = rmsRuns + n
             /\ rmsReturned' = rmsReturned \cup {RMS(seg)}
             /\ UNCHANGED <<rmsCache, rmsWrites>>
        ELSE /\ rmsCache' = [set |-> TRUE, val |-> RMS(seg)]
             /\ rmsRuns' = rmsRuns + 1
             /\ rmsWrites' = rmsWrites + 1
             /\ rmsReturned' = rmsReturned \cup {RMS(seg)}

SplitArgs ==
    [minSilenceLen : 1..MaxMinSilence, thresh : ThresholdRatios, seekStep : 1..MaxSeekStep,
     keepSilence : 0..MaxKeepSilence]

DoSplitOnSilence ==
    \E a \in SplitArgs :
        /\ op = ""
        /\ op' = "SplitOnSilence"
        /\ arg' = a
        /\ ret' = SplitOnSilence(seg, a.minSilenceLen, a.thresh, a.keepSilence, a.seekStep)
        /\ splitCallsRMS
        /\ UNCHANGED <<seg, other, concVars, ovVars, callers>>

DoSplitOnSilenceConcurrent ==
    \E a \in SplitArgs :
        /\ op = ""
        /\ op' = "SplitOnSilenceConcurrent"
        /\ arg' = a
        /\ ret' = SplitOnSilenceConcurrent(seg, a.minSilenceLen, a.thresh, a.keepSilence,
                                           a.seekStep)
        /\ splitCallsRMS
        /\ UNCHANGED <<seg, other, concVars, ovVars, callers>>

NextSilence ==
    \/ DoDetectSilence
    \/ DoDetectNonsilent
    \/ DoDetectNonsilentConcurrent
    \/ DoSplitOnSilence
    \/ DoSplitOnSilenceConcurrent

SpecSilence == InitSilence /\ [][NextSilence]_vars

-----------------------------------------------------------------------------
(* DetectSilenceConcurrent step by step: the caller, the workers, the       *)
(* goroutine that closes the channel, and the collecting loop.              *)

ConcSegments ==
    {MakeSegment(p, w, fr, 1) :
        p \in Patterns(MaxConcFrames), w \in SampleWidths, fr \in {1000, 2000}}

ConcArgs ==
    [minSilenceLen : 0..MaxConcMinSilence, thresh : ThresholdRatios,
     seekStep : 1..MaxConcSeekStep, NumCPU : 1..MaxCPU]

InitConcurrent ==
    /\ op = ""
    /\ seg \in ConcSegments
    /\ other = NilSegment
    /\ arg = NoArg
    /\ ret = NoRanges
    /\ ConcIdle
    /\ OverlayIdle
    /\ RmsIdle

\* the zero value of silenceResult
zeroResult == [index |-> 0, position |-> 0, isSilent |-> FALSE]

\* the call, up to the creation of the channel; the early return when the
\* segment is shorter than minSilenceLen
Start ==
    \E a \in ConcArgs :
        /\ op = ""
        /\ pc = "idle"
        /\ op' = "DetectSilenceConcurrent"
        /\ arg' = a
        /\ IF Duration(seg) < a.minSilenceLen
           THEN /\ pc' = "done"
                /\ ret' = [status |-> "ok", ranges |-> <<>>]
                /\ UNCHANGED <<sliceStarts, numWorkers>>
           ELSE /\ pc' = "spawn"
                /\ sliceStarts' = sliceStartsOf(Duration(seg), a.minSilenceLen, a.seekStep)
                /\ numWorkers' = Min(a.NumCPU, Len(sliceStarts'))
                /\ UNCHANGED ret
        /\ UNCHANGED <<seg, other, spawned, workers, wg, resultCh, chClosed, closer,
                       results, stores, ovVars, rmsVars>>

chunkSize == (Len(sliceStarts) + numWorkers - 1) \div numWorkers

\* one iteration of the loop that hands out the work
SpawnWorker ==
    /\ pc = "spawn"
    /\ spawned < numWorkers
    /\ LET start == spawned * chunkSize
           end == Min(start + chunkSize, Len(sliceStarts))
       IN  IF start < end
           THEN /\ wg' = wg + 1
                /\ workers' = [workers EXCEPT ![spawned] =
                                [state |-> "running",
                                 positions |-> SubSeqFrom(sliceStarts, start, end),
                                 startIdx |-> start, i |-> 0]]
           ELSE UNCHANGED <<wg, workers>>
    /\ spawned' = spawned + 1
    /\ UNCHANGED <<op, seg, other, arg, ret, pc, sliceStarts, numWorkers, resultCh,
                   chClosed, closer, results, stores, ovVars, rmsVars>>

\* go func() { wg.Wait(); close(resultCh) }(), then results := make(...)
StartCloser ==
    /\ pc = "spawn"
    /\ spawned = numWorkers
    /\ closer' = "waiting"
    /\ results' = [k \in 1..Len(sliceStarts) |-> zeroResult]
    /\ stores' = [k \in 1..Len(sliceStarts) |-> <<>>]
    /\ pc' = "collect"
    /\ UNCHANGED <<op, seg, other, arg, ret, sliceStarts, numWorkers, spawned, workers,
                   wg, resultCh, chClosed, ovVars, rmsVars>>

\* a worker that measures through the receiver's RMS(), which stores its
\* result in the shared segment
WorkerReportCaching(w) ==
    /\ workers[w].state = "running"
    /\ workers[w].i < Len(workers[w].positions)
    /\ Len(resultCh) < Len(sliceStarts)
    /\ LET me == workers[w]
           report == silenceResult(seg, me.startIdx, me.i, me.positions[me.i + 1],
                                   arg.minSilenceLen, arg.thresh)
       IN  resultCh' = Append(resultCh, [result |-> report, by |-> w])
    /\ workers' = [workers EXCEPT ![w].i = @ + 1]
    /\ rmsCache' = [set |-> TRUE, val |-> RMS(seg)]
    /\ UNCHANGED <<op, seg, other, arg, ret, pc, sliceStarts, numWorkers, spawned, wg,
                   chClosed, closer, results, stores, ovVars, callers, rmsRuns,
                   rmsWrites, rmsReturned>>

\* a worker that ends without wg.Done()
WorkerDoneNoSignal(w) ==
    /\ workers[w].state = "running"
    /\ workers[w].i = Len(workers[w].positions)
    /\ workers' = [workers EXCEPT ![w].state = "done"]
    /\ UNCHANGED <<op, seg, other, arg, ret, pc, sliceStarts, numWorkers, spawned, wg,
                   resultCh, chClosed, closer, results, stores, ovVars, rmsVars>>

\* a worker measures its next window and sends the report; the send blocks
\* while the channel holds len(sliceStarts) reports
WorkerReport(w) ==
    /\ workers[w].state = "running"
    /\ workers[w].i < Len(workers[w].positions)
    /\ Len(resultCh) < Len(sliceStarts)
    /\ LET me == workers[w]
           report == silenceResult(seg, me.startIdx, me.i, me.positions[me.i + 1],
                                   arg.minSilenceLen, arg.thresh)
       IN  resultCh' = Append(resultCh, [result |-> report, by |-> w])
    /\ workers' = [workers EXCEPT ![w].i = @ + 1]
    /\ UNCHANGED <<op, seg, other, arg, ret, pc, sliceStarts, numWorkers, spawned, wg,
                   chClosed, closer, results, stores, ovVars, rmsVars>>

\* the worker's loop is over: the deferred wg.Done()
WorkerDone(w) ==
    /\ workers[w].state = "running"
    /\ workers[w].i = Len(workers[w].positions)
    /\ workers' = [workers EXCEPT ![w].state = "done"]
    /\ wg' = wg - 1
    /\ UNCHANGED <<op, seg, other, arg, ret, pc, sliceStarts, numWorkers, spawned,
                   resultCh, chClosed, closer, results, stores, ovVars, rmsVars>>

\* wg.Wait() returns and the channel is closed
CloseChannel ==
    /\ closer = "waiting"
    /\ wg = 0
    /\ chClosed' = TRUE
    /\ closer' = "done"
    /\ UNCHANGED <<op, seg, other, arg, ret, pc, sliceStarts, numWorkers, spawned,
                   workers, wg, resultCh, results, stores, ovVars, rmsVars>>

\* for result := range resultCh { results[result.index] = result }
Collect ==
    /\ pc = "collect"
    /\ resultCh # <<>>
    /\ LET m == Head(resultCh)
       IN  /\ results' = [results EXCEPT ![m.result.index + 1] = m.result]
           /\ stores' = [stores EXCEPT ![m.result.index + 1] = Append(@, m.by)]
    /\ resultCh' = Tail(resultCh)
    /\ UNCHANGED <<op, seg, other, arg, ret, pc, sliceStarts, numWorkers, spawned,
                   workers, wg, chClosed, closer, ovVars, rmsVars>>

\* the channel is closed and drained: the range loop ends
CollectEnd ==
    /\ pc = "collect"
    /\ resultCh = <<>>
    /\ chClosed
    /\ pc' = "merge"
    /\ UNCHANGED <<op, seg, other, arg, ret, sliceStarts, numWorkers, spawned, workers,
                   wg, resultCh, chClosed, closer, results, stores, ovVars, rmsVars>>

\* the silent positions in index order, merged into ranges, and the return
Merge ==
    /\ pc = "merge"
    /\ ret' = [status |-> "ok",
               ranges |-> mergeSilence(silentPositions(results), arg.minSilenceLen,
                                       arg.seekStep)]
    /\ pc' = "done"
    /\ UNCHANGED <<op, seg, other, arg, sliceStarts, numWorkers, spawned, workers, wg,
                   resultCh, chClosed, closer, results, stores, ovVars, rmsVars>>

NextConcurrent ==
    \/ Start
    \/ SpawnWorker
    \/ StartCloser
    \/ \E w \in 0..(MaxCPU - 1) : WorkerReport(w)
    \/ \E w \in 0..(MaxCPU - 1) : WorkerDone(w)
    \/ CloseChannel
    \/ Collect
    \/ CollectEnd
    \/ Merge

SpecConcurrent == InitConcurrent /\ [][NextConcurrent]_vars

\* the send of a worker's next report, whatever its verdict: the step
\* WorkerReport(w) as the scheduler sees it
WorkerSends(w) ==
    /\ workers[w].state = "running"
    /\ workers[w].i < Len(workers[w].positions)
    /\ Len(resultCh) < Len(sliceStarts)
    /\ \E isSilent \in BOOLEAN :
        resultCh' = Append(resultCh,
                           [result |-> [index |-> workers[w].startIdx + workers[w].i,
                                        position |-> workers[w].positions[workers[w].i + 1],
                                        isSilent |-> isSilent],
                            by |-> w])
    /\ workers' = [workers EXCEPT ![w].i = @ + 1]
    /\ UNCHANGED <<op, seg, other, arg, ret, pc, sliceStarts, numWorkers, spawned, wg,
                   chClosed, closer, results, stores, ovVars, rmsVars>>

\* the Go scheduler runs every goroutine that can take a step: the caller,
\* each worker, and the goroutine that closes the channel
FairSpecConcurrent ==
    /\ SpecConcurrent
    /\ WF_vars(Start \/ SpawnWorker \/ StartCloser \/ Collect \/ CollectEnd \/ Merge)
    /\ \A w \in 0..(MaxCPU - 1) : WF_vars(WorkerSends(w) \/ WorkerDone(w))
    /\ WF_vars(CloseChannel)

-----------------------------------------------------------------------------
(* Overlay, one pass of its loop at a time *)

OverlayBases ==
    {MakeSegment(p, w, fr, 1) :
        p \in Patterns(MaxOverlayFrames), w \in SampleWidths, fr \in FrameRates}

\* overlays of zero, one or two loud 16-bit frames
OverlayOthers ==
    {MakeSegment(p, 2, fr, 1) : p \in {<<>>, <<TRUE>>, <<TRUE, TRUE>>}, fr \in {1000, 2000}}

\* GainDuringOverlay as a linear ratio: 0 dB and about +6 dB
OverlayConfigs ==
    [Position : 0..MaxMs, LoopToEnd : BOOLEAN, LoopCount : -1..MaxLoopCount,
     GainDuringOverlay : {<<1, 1>>, <<2, 1>>}]

InitOverlay ==
    /\ op = ""
    /\ seg \in OverlayBases
    /\ other = NilSegment
    /\ arg = NoArg
    /\ ret = NoRet
    /\ ConcIdle
    /\ OverlayIdle
    /\ RmsIdle

\* config after the two assignments Overlay makes to the caller's struct
normalizedConfig(c) ==
    LET c1 == IF c.LoopCount = 0 THEN [c EXCEPT !.LoopCount = 1] ELSE c
    IN  IF c1.LoopToEnd THEN [c1 EXCEPT !.LoopCount = -1] ELSE c1

\* Overlay returns before its loop
overlayFails(failed) ==
    /\ ret' = failed
    /\ opc' = "done"
    /\ UNCHANGED <<segment, rSegData, otherSegData, dest, pos, loop>>

\* the two slices of the synchronized receiver, and the state the loop starts in
overlaySliced(base, otherData, left, right) ==
    IF left.status # "ok" THEN overlayFails(left)
    ELSE IF right.status # "ok" THEN overlayFails(right)
    ELSE /\ segment' = base
         /\ dest' = left.seg.data
         /\ rSegData' = right.seg.data
         /\ otherSegData' = otherData
         /\ pos' = 0
         /\ loop' = config'.LoopCount
         /\ opc' = "loop"
         /\ UNCHANGED ret

\* Overlay after sync returned syncedSegments
overlaySynced(syncedSegments, position) ==
    IF syncedSegments.status = "panic" THEN overlayFails(Panic)
    ELSE IF syncedSegments.status = "error" THEN overlayFails(Error)
    ELSE overlaySliced(syncedSegments.segs[1], syncedSegments.segs[2].data,
                       Slice(syncedSegments.segs[1], 0, position),
                       Slice(syncedSegments.segs[1], position,
                             Duration(syncedSegments.segs[1])))

\* Overlay up to its loop: the config defaults, sync and the two slices
OverlayStart ==
    \E o \in OverlayOthers, c \in OverlayConfigs :
        /\ op = ""
        /\ opc = "idle"
        /\ op' = "Overlay"
        /\ other' = o
        /\ arg' = c
        /\ config' = normalizedConfig(c)
        /\ overlaySynced(sync(<<seg, o>>), c.Position)
        /\ UNCHANGED <<seg, concVars, rmsVars>>

\* Overlay(nil, config) returns a copy of the receiver
OverlayNil ==
    \E c \in OverlayConfigs :
        /\ op = ""
        /\ opc = "idle"
        /\ op' = "OverlayNil"
        /\ arg' = c
        /\ ret' = derive(seg, seg.data, NoOpts)
        /\ opc' = "done"
        /\ UNCHANGED <<seg, other, concVars, rmsVars, config, segment, rSegData, otherSegData,
                       dest, pos, loop>>

\* one pass of the loop: the overlay is mixed onto rSegData at pos
OverlayPass ==
    /\ opc = "loop"
    /\ loop # 0
    /\ LET remainingLen == Max(Len(rSegData) - pos, 0)
           last == Len(otherSegData) >= remainingLen
           data == IF last THEN SubSeq(otherSegData, 1, remainingLen) ELSE otherSegData
           i == IF last THEN 1 ELSE loop
           under == SubSeqFrom(rSegData, pos, pos + Len(data))
           gain == config.GainDuringOverlay
           adjusted == IF gain[1] > gain[2]
                       THEN Mul(under, segment.sampleWidth, gain)
                       ELSE AudioopOk(under)
           mixed == IF adjusted.err THEN adjusted
                    ELSE Add(adjusted.data, data, segment.sampleWidth)
       IN  IF mixed.err
           THEN /\ ret' = Error
                /\ opc' = "done"
                /\ UNCHANGED <<otherSegData, dest, pos, loop>>
           ELSE /\ otherSegData' = data
                /\ dest' = dest \o mixed.data
                /\ pos' = pos + Len(data)
                /\ loop' = Max(i - 1, LoopFloor)
                /\ UNCHANGED <<ret, opc>>
    /\ UNCHANGED <<op, seg, other, arg, concVars, rmsVars, config, segment, rSegData>>

\* the loop is over: the rest of rSegData is written and the result derived
OverlayFinish ==
    /\ opc = "loop"
    /\ loop = 0
    /\ dest' = dest \o SubSeqFrom(rSegData, pos, Len(rSegData))
    /\ ret' = derive(segment, dest', NoOpts)
    /\ opc' = "done"
    /\ UNCHANGED <<op, seg, other, arg, concVars, rmsVars, config, segment, rSegData,
                   otherSegData, pos, loop>>

NextOverlay ==
    \/ OverlayStart
    \/ OverlayNil
    \/ OverlayPass
    \/ OverlayFinish

SpecOverlay == InitOverlay /\ [][NextOverlay]_vars

-----------------------------------------------------------------------------
(* RMS() on one segment, called by several goroutines; nothing in the code  *)
(* orders their reads and writes of the rms field.                          *)

RmsSegments ==
    {MakeSegment(p, w, fr, 1) : p \in Patterns(2), w \in ValidWidths, fr \in {1000}}

InitRMS ==
    /\ op = ""
    /\ seg \in RmsSegments
    /\ other = NilSegment
    /\ arg = NoArg
    /\ ret = NoRet
    /\ ConcIdle
    /\ OverlayIdle
    /\ RmsIdle

\* the call returns v
rmsReturn(c, v) ==
    /\ callers' = [callers EXCEPT ![c] = [state |-> "idle", rms |-> 0, calls |-> @.calls + 1]]
    /\ rmsReturned' = rmsReturned \cup {v}

\* a goroutine calls seg.RMS()
RMSCall(c) ==
    /\ op \in {"", "RMS"}
    /\ callers[c].state = "idle"
    /\ callers[c].calls < MaxCalls
    /\ op' = "RMS"
    /\ callers' = [callers EXCEPT ![c].state = "entered"]
    /\ UNCHANGED <<seg, other, arg, ret, concVars, ovVars, rmsCache, rmsRuns, rmsWrites,
                   rmsReturned>>

\* if seg.rms != nil { return *seg.rms }
RMSCheck(c) ==
    /\ callers[c].state = "entered"
    /\ IF rmsCache.set
       THEN rmsReturn(c, rmsCache.val)
       ELSE /\ callers' = [callers EXCEPT ![c].state = "compute"]
            /\ UNCHANGED rmsReturned
    /\ UNCHANGED <<op, seg, other, arg, ret, concVars, ovVars, rmsCache, rmsRuns, rmsWrites>>

\* the measurement: on a 16-bit fork for a 1-byte segment (the fork's rms
\* field is set, the receiver's is not), else on the receiver's data
RMSCompute(c) ==
    /\ callers[c].state = "compute"
    /\ IF seg.sampleWidth = 1
       THEN /\ rmsReturn(c, RMS(seg))
            /\ rmsRuns' = rmsRuns + 1
       ELSE IF AudioopRMS(seg.data, seg.sampleWidth).err
       THEN /\ rmsReturn(c, 0)
            /\ UNCHANGED rmsRuns
       ELSE /\ callers' = [callers EXCEPT ![c].state = "store",
                                          ![c].rms = AudioopRMS(seg.data, seg.sampleWidth).val]
            /\ rmsRuns' = rmsRuns + 1
            /\ UNCHANGED rmsReturned
    /\ UNCHANGED <<op, seg, other, arg, ret, concVars, ovVars, rmsCache, rmsWrites>>

\* seg.rms = &rms; return rms
RMSStore(c) ==
    /\ callers[c].state = "store"
    /\ rmsCache' = [set |-> TRUE, val |-> callers[c].rms]
    /\ rmsWrites' = rmsWrites + 1
    /\ rmsReturn(c, callers[c].rms)
    /\ UNCHANGED <<op, seg, other, arg, ret, concVars, ovVars, rmsRuns>>

NextRMS ==
    \/ \E c \in 1..MaxCallers : RMSCall(c)
    \/ \E c \in 1..MaxCallers : RMSCheck(c)
    \/ \E c \in 1..MaxCallers : RMSCompute(c)
    \/ \E c \in 1..MaxCallers : RMSStore(c)

SpecRMS == InitRMS /\ [][NextRMS]_vars

-----------------------------------------------------------------------------
(* SplitAudio and SplitAudioConcurrent.  targetLen, win and the returned    *)
(* positions are seconds in the code; here they are milliseconds, exact for *)
(* the halves of a second the model uses.  SplitAudio loads the recording   *)
(* from a file; the model starts from the loaded segment.                   *)

\* int64(safeMargin*1000)
SafeMarginMs == 500

\* Volume(-30) as a ratio in 128ths: 10^(-30/20) = 0.0316 lies between 4/128
\* and 5/128; no window of the recordings below has an RMS between the two
SplitThresh == 4

\* the cut of one pass: the first qualifying region's start + safeMargin,
\* else the nominal threshold; ws is the window's start, (threshold - win)
splitPoint(silenceRegions, threshold, win, ws) ==
    LET validRegions ==
            SelectSeq(silenceRegions,
                      LAMBDA region :
                        /\ (region[2] + ws) - (region[1] + ws) >= SafeMarginMs * 2
                        /\ threshold <= region[1] + ws + SafeMarginMs
                        /\ region[1] + ws + SafeMarginMs <= threshold + win)
    IN  IF Len(validRegions) > 0 THEN (validRegions[1][1] + ws) + SafeMarginMs
        ELSE threshold

\* the silence regions of the window, by the detector of the variant
windowSilence(windowAudio, concurrent) ==
    IF concurrent
    THEN DetectSilenceConcurrent(windowAudio, SafeMarginMs, SplitThresh, 1)
    ELSE DetectSilence(windowAudio, SafeMarginMs, SplitThresh, 1)

\* one pass up to the cut: the window is sliced, searched for silence, and
\* the cut chosen; status is "error" when Slice refuses the window
splitPass(windowAudio, threshold, win, concurrent) ==
    IF windowAudio.status # "ok" THEN [status |-> windowAudio.status, at |-> 0]
    ELSE LET silenceRegions == windowSilence(windowAudio.seg, concurrent)
         IN  IF silenceRegions.status # "ok"
             THEN [status |-> silenceRegions.status, at |-> 0]
             ELSE [status |-> "ok",
                   at |-> splitPoint(silenceRegions.ranges, threshold, win,
                                     threshold - win)]

\* for pos < duration { ... }
RECURSIVE splitAudioLoop(_, _, _, _, _, _, _)
splitAudioLoop(audio, duration, curPos, segments, targetLen, win, concurrent) ==
    IF ~(curPos < duration) THEN [status |-> "ok", ranges |-> segments]
    ELSE IF duration - curPos <= targetLen
    THEN [status |-> "ok", ranges |-> Append(segments, <<curPos, duration>>)]
    ELSE LET threshold == curPos + targetLen
             ws == threshold - win
             we == threshold + win
             after == {IF cut.status # "ok"
                       THEN [status |-> cut.status, ranges |-> <<>>]
                       ELSE splitAudioLoop(audio, duration, cut.at,
                                           Append(segments, <<curPos, cut.at>>),
                                           targetLen, win, concurrent) :
                        cut \in {splitPass(Slice(audio, ws, we), threshold, win,
                                           concurrent)}}
         IN  CHOOSE r \in after : TRUE

\* the defaults, the duration in whole seconds and the short recording
splitAudio(audio, targetLen, win, concurrent) ==
    LET tl == IF targetLen = 0 THEN 30 * 60 * 1000 ELSE targetLen
        w == IF win = 0 THEN 60 * 1000 ELSE win
        duration == (Duration(audio) \div 1000) * 1000
    IN  IF duration <= tl + w
        THEN [status |-> "ok", ranges |-> <<<<0, duration>>>>]
        ELSE splitAudioLoop(audio, duration, 0, <<>>, tl, w, concurrent)

SplitAudio(audio, targetLen, win) == splitAudio(audio, targetLen, win, FALSE)

SplitAudioConcurrent(audio, targetLen, win) == splitAudio(audio, targetLen, win, TRUE)

\* recordings of whole seconds at 8 Hz, 16-bit mono: TRUE is a second of
\* samples of value 2000, FALSE a second of zeros.  At 8 Hz the float64
\* arithmetic of Duration and FrameCountIn is the integer arithmetic of the
\* model at every position of these recordings.
SplitFrames(seconds) ==
    [i \in 1..(16 * Len(seconds)) |->
        EncodeSample(IF seconds[((i - 1) \div 16) + 1] THEN 2000 ELSE 0, 2)[((i - 1) % 2) + 1]]

SplitRecordings ==
    {[sampleWidth |-> 2, frameRate |-> 8, frameWidth |-> 2, channels |-> 1,
      data |-> SplitFrames(p)] : p \in UNION {[1..k -> BOOLEAN] : k \in 1..MaxSplitSeconds}}

SplitAudioArgs == [targetLen : {0, 500, 1000}, win : {0, 500, 1000}]

InitSplitAudio ==
    /\ op = ""
    /\ seg \in SplitRecordings
    /\ other = NilSegment
    /\ arg = NoArg
    /\ ret = NoRanges
    /\ ConcIdle
    /\ OverlayIdle
    /\ RmsIdle

DoSplitAudio ==
    \E a \in SplitAudioArgs :
        /\ op = ""
        /\ op' = "SplitAudio"
        /\ arg' = a
        /\ ret' = SplitAudio(seg, a.targetLen, a.win)
        /\ UNCHANGED <<seg, other, concVars, ovVars, rmsVars>>

DoSplitAudioConcurrent ==
    \E a \in SplitAudioArgs :
        /\ op = ""
        /\ op' = "SplitAudioConcurrent"
        /\ arg' = a
        /\ ret' = SplitAudioConcurrent(seg, a.targetLen, a.win)
        /\ UNCHANGED <<seg, other, concVars, ovVars, rmsVars>>

NextSplitAudio == DoSplitAudio \/ DoSplitAudioConcurrent

SpecSplitAudio == InitSplitAudio /\ [][NextSplitAudio]_vars

-----------------------------------------------------------------------------
(* Ratecv on a short buffer, called as ForkWithFrameRate calls it *)

RatecvRates == {8000, 16000, 24000, 48000}

\* buffers of one frame or more, mono and stereo, 8 and 16 bits
RatecvSegments ==
    {MakeSegment(p, w, fr, ch) :
        p \in Patterns(MaxRatecvFrames) \ {<<>>}, w \in SampleWidths,
        fr \in {8000, 16000}, ch \in ValidChannels}

InitRatecv ==
    /\ op = ""
    /\ seg \in RatecvSegments
    /\ other = NilSegment
    /\ arg = NoArg
    /\ ret = NoRet
    /\ ConcIdle
    /\ OverlayIdle
    /\ RmsIdle

\* out, state, err = Ratecv(input, width, channels, inRate, outRate, 1, 0)
DoRatecv ==
    \E outrate \in RatecvRates :
        /\ op = ""
        /\ op' = "Ratecv"
        /\ arg' = [outrate |-> outrate]
        /\ ret' = Ratecv(seg.data, seg.sampleWidth, seg.channels, seg.frameRate, outrate,
                         1, 0)
        /\ UNCHANGED <<seg, other, concVars, ovVars, rmsVars>>

SpecRatecv == InitRatecv /\ [][DoRatecv]_vars

-----------------------------------------------------------------------------
(* The whole package: one call of any operation on a segment *)

\* the receivers every operation of the model accepts
AllSegments == ConcSegments \cup OverlayBases

InitAll ==
    /\ op = ""
    /\ seg \in AllSegments
    /\ other = NilSegment
    /\ arg = NoArg
    /\ ret = NoRet
    /\ ConcIdle
    /\ OverlayIdle
    /\ RmsIdle

NextAll == Next \/ NextSilence \/ NextConcurrent \/ NextOverlay \/ NextRMS

SpecAll == InitAll /\ [][NextAll]_vars

-----------------------------------------------------------------------------
(* Claims about the segment algebra, checked under Spec *)

\* C4: for every 0 <= a <= b <= Duration(), Slice(0,a), Slice(a,b) and
\* Slice(0,b) all succeed and Append(Slice(0,a), Slice(a,b)) has the data of
\* Slice(0,b).  Stated for the segments of one or two channels, those that
\* Append accepts.
C4_SliceAppendPartition ==
    (op = "SliceAppend" /\ seg.channels \in ValidChannels) =>
        /\ ret.status = "ok"
        /\ Slice(seg, 0, arg.b).status = "ok"
        /\ ret.seg.data = Slice(seg, 0, arg.b).seg.data

\* C20: for a segment of whole frames with a positive frame rate and
\* 0 <= start <= end, the byte offsets at which Slice indexes the buffer satisfy
\* 0 <= startIndex <= endIndex <= len(data), so the indexing never fails, also
\* when the rounded Duration() converts back to more frames than the buffer has.
C20_SliceIndexesInsideBuffer ==
    (/\ op = "Slice"
     /\ WholeFrames(seg)
     /\ seg.frameRate > 0
     /\ 0 <= arg.start
     /\ arg.start <= arg.end) =>
        LET ix == SliceData(seg, arg.start, arg.end)
        IN  /\ 0 <= ix.startIndex
            /\ ix.startIndex <= ix.endIndex
            /\ ix.endIndex <= Len(seg.data)
            /\ ret.status # "panic"

\* C6: the segment Append returns reports the maxima of channels, frame rate
\* and sample width over the receiver and the arguments, with frameWidth =
\* channels x sampleWidth, and holds the operands' synchronized data in order.
C6_AppendReportsCommonFormat ==
    (op = "Append" /\ ret.status = "ok") =>
        LET all == <<seg>> \o arg.segments
            n == Len(all)
        IN  /\ ret.seg.channels = SetMax({all[i].channels : i \in 1..n})
            /\ ret.seg.frameRate = SetMax({all[i].frameRate : i \in 1..n})
            /\ ret.seg.sampleWidth = SetMax({all[i].sampleWidth : i \in 1..n})
            /\ ret.seg.frameWidth = ret.seg.channels * ret.seg.sampleWidth
            /\ ret.seg.data = ConcatAll([i \in 1..n |-> sync(all).segs[i].data])

SegmentOps == {"Slice", "Append", "Repeat", "Reverse", "ForkWithSampleWidth",
               "ForkWithFrameRate", "ForkWithChannels", "NewAudioSegmentFromWaveAudio"}

\* C7: every segment a factory or an operation returns has frameWidth =
\* channels x sampleWidth and holds a whole number of frames.
C7_ReturnedSegmentsAreWholeFrames ==
    (op \in SegmentOps /\ ret.status = "ok") =>
        /\ ret.seg.frameWidth = ret.seg.channels * ret.seg.sampleWidth
        /\ ret.seg.frameWidth > 0
        /\ Len(ret.seg.data) % ret.seg.frameWidth = 0

\* the frames by which the range Slice(start, end) asks for runs past the buffer
MissingFrames(s, start, end) ==
    LET ix == SliceData(s, start, end)
    IN  (ix.expectedLength - (ix.endIndex - ix.startIndex)) \div s.frameWidth

\* C8: when the requested frame range runs k >= 1 frames past the end of the
\* buffer, Slice pads the result with k zero frames up to the requested length
\* if k is at most 2 ms of frames, and returns an error otherwise.
C8_SlicePadsMissingFrames ==
    (/\ op = "Slice"
     /\ 0 <= arg.start /\ arg.start <= arg.end
     /\ SliceData(seg, arg.start, arg.end).startIndex <= Len(seg.data)
     /\ MissingFrames(seg, arg.start, arg.end) >= 1) =>
        LET ix == SliceData(seg, arg.start, arg.end)
            k == MissingFrames(seg, arg.start, arg.end)
        IN  IF k * 1000 <= FrameCountInMilli(seg, 2)
            THEN /\ ret.status = "ok"
                 /\ ret.seg.data = SubSeqFrom(seg.data, ix.startIndex, ix.endIndex)
                                   \o Zeros(k * seg.frameWidth)
            ELSE ret.status = "error"

\* C9: forking to the segment's own current sample width, frame rate or
\* channel count returns the receiver itself without error, and forking the
\* result of a fork to the same target again returns that result itself.
C9_ForkToCurrentIsIdentity ==
    /\ (op = "ForkWithSampleWidth" /\ arg.target = seg.sampleWidth) => ret = Self(seg)
    /\ (op = "ForkWithFrameRate" /\ arg.target = seg.frameRate) => ret = Self(seg)
    /\ (op = "ForkWithChannels" /\ arg.target = seg.channels) => ret = Self(seg)
    /\ (op = "ForkWithSampleWidth" /\ ret.status = "ok")
            => ForkWithSampleWidth(ret.seg, arg.target) = Self(ret.seg)
    /\ (op = "ForkWithFrameRate" /\ ret.status = "ok")
            => ForkWithFrameRate(ret.seg, arg.target) = Self(ret.seg)
    /\ (op = "ForkWithChannels" /\ ret.status = "ok")
            => ForkWithChannels(ret.seg, arg.target) = Self(ret.seg)

-----------------------------------------------------------------------------
(* Claims about the silence engine, checked under SpecSilence *)

\* the ranges of rs that hold millisecond m, ranges being half-open
RangesHolding(rs, m) == {i \in 1..Len(rs) : rs[i][1] <= m /\ m < rs[i][2]}

\* C3: for minSilenceLen >= 1 the ranges of DetectSilence and of
\* DetectNonsilent lie inside [0, Duration()], do not overlap, and every
\* millisecond of [0, Duration()) is in exactly one of them.
C3_SilenceAndNonsilentPartition ==
    (op = "DetectNonsilent" /\ arg.minSilenceLen >= 1) =>
        LET silent == DetectSilence(seg, arg.minSilenceLen, arg.thresh, arg.seekStep)
            all == silent.ranges \o ret.ranges
        IN  /\ ret.status = "ok"
            /\ silent.status = "ok"
            /\ \A i \in 1..Len(all) :
                    0 <= all[i][1] /\ all[i][1] <= all[i][2] /\ all[i][2] <= Duration(seg)
            /\ \A m \in 0..(Duration(seg) - 1) : Cardinality(RangesHolding(all, m)) = 1

\* a run of DetectNonsilent that found silence in the middle of the segment:
\* two nonsilent ranges around one silent range
C3_Witness ==
    /\ op = "DetectNonsilent"
    /\ arg.minSilenceLen >= 1
    /\ ret.status = "ok"
    /\ Len(ret.ranges) = 2
    /\ ret.ranges[1][2] > 0
    /\ Len(DetectSilence(seg, arg.minSilenceLen, arg.thresh, arg.seekStep).ranges) = 1

\* C10: SplitOnSilence and SplitOnSilenceConcurrent return an error and no
\* chunks exactly when seg.RMS() = 0, and return normally for every segment
\* of non-zero RMS.
C10_SplitFailsOnlyOnEmptyAudio ==
    op \in {"SplitOnSilence", "SplitOnSilenceConcurrent"} =>
        IF RMS(seg) = 0
        THEN ret.status = "error" /\ ret.chunks = <<>>
        ELSE ret.status = "ok"

\* C11: the chunks SplitOnSilence and SplitOnSilenceConcurrent cut from two
\* or more nonsilent ranges have start <= end, lie in [0, Duration()], and do
\* not overlap: a chunk never starts before the chunk before it ends.
C11_ChunksOrderedAndDisjoint ==
    (op \in {"SplitOnSilence", "SplitOnSilenceConcurrent"} /\ ret.status = "ok"
        /\ Len(ret.chunks) >= 2) =>
        /\ \A k \in 1..Len(ret.chunks) :
            /\ 0 <= ret.chunks[k][1]
            /\ ret.chunks[k][1] <= ret.chunks[k][2]
            /\ ret.chunks[k][2] <= Duration(seg)
        /\ \A k \in 1..(Len(ret.chunks) - 1) : ret.chunks[k][2] <= ret.chunks[k + 1][1]

\* the silent ranges the running DetectNonsilent or DetectNonsilentConcurrent
\* started from
SilentRangesOfRun ==
    IF op = "DetectNonsilent"
    THEN DetectSilence(seg, arg.minSilenceLen, arg.thresh, arg.seekStep)
    ELSE DetectSilenceConcurrent(seg, arg.minSilenceLen, arg.thresh, arg.seekStep)

\* C12: when the first silent range starts at 0 and does not cover the whole
\* segment, the list DetectNonsilent and DetectNonsilentConcurrent return does
\* not begin with the zero-length range [0,0], and none of its ranges is empty.
C12_LeadingZeroRangeDropped ==
    (/\ op \in {"DetectNonsilent", "DetectNonsilentConcurrent"}
     /\ ret.status = "ok"
     /\ SilentRangesOfRun.ranges # <<>>
     /\ SilentRangesOfRun.ranges[1][1] = 0
     /\ SilentRangesOfRun.ranges[1][2] # Duration(seg)) =>
        /\ ret.ranges # <<>>
        /\ ret.ranges[1] # <<0, 0>>
        /\ \A k \in 1..Len(ret.ranges) : ret.ranges[k][1] < ret.ranges[k][2]

\* C17: DetectSilence returns; the list is empty when Duration() < minSilenceLen
\* or no candidate window is silent; the candidate starts are the multiples of
\* seekStep up to Duration() - minSilenceLen and that last start itself, in
\* strictly increasing order; every range runs from a silent start to a silent
\* start + minSilenceLen inside [0, Duration()], and the next range starts
\* after its end, at a start that is not seekStep after its last start.
C17_DetectSilenceRanges ==
    op = "DetectSilence" =>
        LET segLen == Duration(seg)
            m == arg.minSilenceLen
            starts == sliceStartsOf(segLen, m, arg.seekStep)
            ranges == ret.ranges
        IN  /\ ret.status = "ok"
            /\ segLen < m => ranges = <<>>
            /\ segLen >= m =>
                /\ \A k \in 1..(Len(starts) - 1) : starts[k] < starts[k + 1]
                /\ {starts[k] : k \in 1..Len(starts)} =
                        {i \in 0..(segLen - m) : i % arg.seekStep = 0} \cup {segLen - m}
                /\ (\A k \in 1..Len(starts) :
                        windowVerdict(seg, starts[k], m, arg.thresh) # "silent")
                        => ranges = <<>>
                /\ \A i \in 1..Len(ranges) :
                    /\ 0 <= ranges[i][1]
                    /\ ranges[i][2] - ranges[i][1] >= m
                    /\ ranges[i][2] <= segLen
                    /\ windowVerdict(seg, ranges[i][1], m, arg.thresh) = "silent"
                    /\ windowVerdict(seg, ranges[i][2] - m, m, arg.thresh) = "silent"
                /\ \A i \in 1..(Len(ranges) - 1) :
                    /\ ranges[i][2] < ranges[i + 1][1]
                    /\ ranges[i + 1][1] # (ranges[i][2] - m) + arg.seekStep

-----------------------------------------------------------------------------
(* Claims about DetectSilenceConcurrent, checked under SpecConcurrent *)

\* C1: DetectSilenceConcurrent returns exactly the list of ranges that
\* DetectSilence returns for the same segment, minSilenceLen, threshold and
\* seekStep.
C1_ConcurrentEqualsSequential ==
    (op = "DetectSilenceConcurrent" /\ pc = "done") =>
        ret = DetectSilence(seg, arg.minSilenceLen, arg.thresh, arg.seekStep)

\* C2: when the merge step starts, every candidate index has been stored
\* exactly once, by the one worker whose chunk holds it, with the start
\* position and the verdict of its own window; the ranges returned are
\* therefore a function of the inputs, whatever the schedule.
C2_EveryIndexStoredOnce ==
    /\ pc = "merge" =>
        \A k \in 1..Len(sliceStarts) :
            /\ Len(stores[k]) = 1
            /\ stores[k][1] = (k - 1) \div chunkSize
            /\ results[k].index = k - 1
            /\ results[k].position = sliceStarts[k]
            /\ results[k].isSilent =
                    BelowThreshold(
                        calculateRMSForSegmentOptimized(
                            seg, sliceStarts[k], sliceStarts[k] + arg.minSilenceLen),
                        arg.thresh, seg)
    /\ (pc = "done" /\ sliceStarts # <<>>) =>
        ret.ranges = mergeSilence(
                        SelectSeq(sliceStarts,
                            LAMBDA p : BelowThreshold(
                                calculateRMSForSegmentOptimized(seg, p, p + arg.minSilenceLen),
                                arg.thresh, seg)),
                        arg.minSilenceLen, arg.seekStep)

\* the merge step is reached after two or more workers, each with a chunk of
\* its own, reported on three or more windows of which some are silent and
\* some not
C2_Witness ==
    /\ pc = "merge"
    /\ Len(sliceStarts) >= 3
    /\ Cardinality({w \in 0..(MaxCPU - 1) : workers[w].state = "done"}) >= 2
    /\ \E k \in 1..Len(results) : results[k].isSilent
    /\ \E k \in 1..Len(results) : ~results[k].isSilent

\* C18: under fair scheduling every call of DetectSilenceConcurrent returns;
\* once the work is handed out at least one worker was started; a worker with
\* a report left to send always finds a free slot in the channel; the channel
\* is closed once, by the closing goroutine, and only when every started worker
\* has finished.
C18_ConcurrentCallReturns ==
    /\ (op = "DetectSilenceConcurrent") ~> (pc = "done")
    /\ [](pc \in {"collect", "merge"} =>
            \E w \in 0..(MaxCPU - 1) : workers[w].state # "none")
    /\ [](\A w \in 0..(MaxCPU - 1) :
            (workers[w].state = "running" /\ workers[w].i < Len(workers[w].positions))
                => Len(resultCh) < Len(sliceStarts))
    /\ [](chClosed =>
            /\ closer = "done"
            /\ wg = 0
            /\ \A w \in 0..(MaxCPU - 1) : workers[w].state \in {"none", "done"})
    /\ [][chClosed => chClosed']_vars

\* a call with two workers or more has returned
C18_Witness ==
    /\ pc = "done"
    /\ chClosed
    /\ wg = 0
    /\ Cardinality({w \in 0..(MaxCPU - 1) : workers[w].state = "done"}) >= 2
    /\ ret.status = "ok"

-----------------------------------------------------------------------------
(* Claims about Overlay, checked under SpecOverlay *)

\* the receiver of the running Overlay, synchronized with the overlay
SyncedBase == sync(<<seg, other>>).segs[1]

\* the bytes of the synchronized base left of config.Position
HeadLen == parsePosition(SyncedBase, arg.Position) * SyncedBase.frameWidth

\* C5: for every position in [0, Duration()] and every loop setting, Overlay
\* returns a segment of exactly the byte length of the synchronized base,
\* whose bytes before the position and after the last mixed pass are those of
\* the base.
C5_OverlayKeepsLengthAndFrame ==
    (op = "Overlay" /\ opc = "done" /\ arg.Position <= Duration(SyncedBase)) =>
        /\ ret.status = "ok"
        /\ Len(ret.seg.data) = Len(SyncedBase.data)
        /\ SubSeq(ret.seg.data, 1, HeadLen) = SubSeq(SyncedBase.data, 1, HeadLen)
        /\ SubSeqFrom(ret.seg.data, HeadLen + pos, Len(ret.seg.data))
            = SubSeqFrom(SyncedBase.data, HeadLen + pos, Len(SyncedBase.data))

\* C19: Overlay ends after finitely many passes, stated by its measure of
\* progress: while the counter is positive each pass that is not the last
\* lowers it, so there are at most loopCount passes; with a negative counter
\* (loopToEnd or a negative loopCount) a pass is the last exactly when the
\* overlay no longer fits in the remaining tail, and a pass that is not the
\* last shortens the remaining tail.
C19_OverlayTerminates ==
    /\ [][(opc = "loop" /\ opc' = "loop" /\ loop > 0) => loop' < loop]_vars
    /\ [][(opc = "loop" /\ opc' = "loop" /\ loop < 0) =>
            /\ (loop' = 0) = (Len(otherSegData) >= Len(rSegData) - pos)
            /\ loop' # 0 => pos' > pos]_vars

\* C21: Overlay leaves the caller's OverlayConfig as it was passed: when the
\* call has returned, Position, LoopToEnd, LoopCount and GainDuringOverlay hold
\* the values they had before the call.
C21_OverlayLeavesConfig ==
    (op = "Overlay" /\ opc = "done") =>
        /\ config.Position = arg.Position
        /\ config.LoopToEnd = arg.LoopToEnd
        /\ config.LoopCount = arg.LoopCount
        /\ config.GainDuringOverlay = arg.GainDuringOverlay

-----------------------------------------------------------------------------
(* Claims about RMS(), checked under SpecRMS *)

\* C13: over any sequence and any interleaving of RMS() calls on one segment,
\* audioop.RMS runs at most once for it, its rms field is assigned at most
\* once, and every call returns the same value.
C13_RMSComputedOnce ==
    op = "RMS" =>
        /\ rmsRuns <= 1
        /\ rmsWrites <= 1
        /\ Cardinality(rmsReturned) <= 1

-----------------------------------------------------------------------------
(* Claims about every operation, checked under SpecAll *)

\* C14: no step of any operation changes the data or the format of the
\* receiver or of an argument already passed, and no step of a call of
\* DetectSilenceConcurrent (its workers included) writes the rms cache of the
\* shared segment; the rms cache is the only part of a segment that a step of
\* any operation writes.
C14_SegmentsNeverMutated ==
    [][/\ seg' = seg
       /\ (other # NilSegment => other' = other)
       /\ (op' = "DetectSilenceConcurrent" => rmsCache' = rmsCache)]_vars

\* two workers have reported on the shared segment and the call has returned
C14_Witness ==
    /\ op = "DetectSilenceConcurrent"
    /\ pc = "done"
    /\ \E j, k \in 1..Len(stores) :
        /\ stores[j] # <<>>
        /\ stores[k] # <<>>
        /\ stores[j][1] # stores[k][1]
    /\ rmsCache = NoCache

-----------------------------------------------------------------------------
(* Claims about SplitAudio, checked under SpecSplitAudio *)

\* the ranges tile [0, duration] and every cut lies within win of pos + targetLen
SplitTiles(ranges, duration, targetLen, win) ==
    /\ ranges # <<>>
    /\ ranges[1][1] = 0
    /\ ranges[Len(ranges)][2] = duration
    /\ \A k \in 1..(Len(ranges) - 1) :
        /\ ranges[k + 1][1] = ranges[k][2]
        /\ ranges[k][2] >= ranges[k][1] + targetLen - win
        /\ ranges[k][2] <= ranges[k][1] + targetLen + win

\* C15: for a recording longer than targetLen + win and positive targetLen and
\* win (win > targetLen included), SplitAudio and SplitAudioConcurrent return
\* without error ranges that tile the recording from 0 to its duration, every
\* cut within win of the nominal boundary pos + targetLen.
C15_SplitAudioTilesRecording ==
    (/\ op \in {"SplitAudio", "SplitAudioConcurrent"}
     /\ arg.targetLen > 0
     /\ arg.win > 0
     /\ Duration(seg) > arg.targetLen + arg.win) =>
        /\ ret.status = "ok"
        /\ SplitTiles(ret.ranges, Duration(seg), arg.targetLen, arg.win)

-----------------------------------------------------------------------------
(* Claims about Ratecv, checked under SpecRatecv *)

\* C16: Ratecv on a buffer of one complete frame or more returns no error, a
\* state whose accumulator D is the one the gcd-reduced rates leave (negative,
\* not below minus the reduced input rate; -2 for one 16-bit stereo frame
\* from 16000 Hz to 24000 Hz) and a non-empty output of whole frames.
C16_RatecvShortBuffer ==
    op = "Ratecv" =>
        /\ ~ret.err
        /\ ret.D < 0
        /\ ret.D >= 0 - (seg.frameRate \div Gcd(seg.frameRate, arg.outrate))
        /\ (seg.frameRate = 16000 /\ arg.outrate = 24000 /\ FrameCount(seg) = 1)
                => ret.D = -2
        /\ Len(ret.data) > 0
        /\ Len(ret.data) % seg.frameWidth = 0

\* the test: one 16-bit stereo frame of zeros, 16000 Hz to 24000 Hz
C16_Witness ==
    /\ op = "Ratecv"
    /\ seg.data = <<0, 0, 0, 0>>
    /\ seg.sampleWidth = 2
    /\ seg.channels = 2
    /\ seg.frameRate = 16000
    /\ arg.outrate = 24000
    /\ ret.D = -2
    /\ Len(ret.data) = 4

====
